---- MODULE Spec2Model ----
(***************************************************************************)
(* A model of scripts/parse_results.py: one run of main() after argparse   *)
(* has accepted the command line.  The run loads a Trivy JSON report,      *)
(* flattens it, prints the summary and applies the --fail-on gate.         *)
(*                                                                         *)
(* JSON values are modelled as follows.  A JSON object is a TLA+ record    *)
(* whose DOMAIN is the set of keys present (a Python dict).  A JSON array  *)
(* is JList(seq), JSON null is JNull.  Strings that are only compared are  *)
(* TLA+ strings; a string that is sliced (Title) is a tuple of characters. *)
(***************************************************************************)
EXTENDS Integers, Sequences, FiniteSets, TLC

\* ------------------------------------------------------------------------
\* Bounds of the model (sizes of the reports Init draws).
MaxVulns == 3        \* longest arbitrary severity sequence
MaxResults == 2      \* most Result entries in one report

\* Program constants.
TitleMax == 60       \* [:60]
BarCap == 40         \* min(count, 40)
TableMax == 20       \* sorted_vulns[:20]
MisconfigMax == 15   \* misconfigs[:15]

SEVERITY_ORDER == <<"CRITICAL", "HIGH", "MEDIUM", "LOW", "UNKNOWN">>

RESET == "ESC[0m"

SEVERITY_COLORS ==
  [CRITICAL |-> "ESC[91m", HIGH |-> "ESC[93m", MEDIUM |-> "ESC[94m",
   LOW |-> "ESC[92m", UNKNOWN |-> "ESC[90m"]

\* argparse: choices of --fail-on; None is the default of --fail-on/--output.
FailOnChoices == {"CRITICAL", "HIGH", "MEDIUM", "LOW"}
None == "None"

\* ------------------------------------------------------------------------
\* Python helpers.
Min(a, b) == IF a <= b THEN a ELSE b

Range(s) == {s[i] : i \in DOMAIN s}

\* ch * n
Repeat(ch, n) == [i \in 1..n |-> ch]

\* s[:n]
Slice(s, n) == SubSeq(s, 1, Min(Len(s), n))

JNull == [t |-> "null"]
JList(s) == [t |-> "list", v |-> s]

\* dict.get(key, default)
Get(obj, key, default) == IF key \in DOMAIN obj THEN obj[key] ELSE default

\* x or []  (None and the empty list are falsy)
OrEmpty(x) == IF x.t = "null" THEN <<>> ELSE x.v

\* SEVERITY_ORDER.index(sev); NotInList stands for the ValueError it raises.
NotInList == -1
Index(sev) ==
  IF sev \in Range(SEVERITY_ORDER)
  THEN (CHOOSE i \in DOMAIN SEVERITY_ORDER : SEVERITY_ORDER[i] = sev) - 1
  ELSE NotInList

\* color(text, severity): the escape of the severity ('' when it has none),
\* the text, and RESET.  Nothing here looks at the terminal.
color(text, severity) ==
  <<Get(SEVERITY_COLORS, severity, ""), text, RESET>>

\* ------------------------------------------------------------------------
\* Extractors.
Dash == <<"-">>

\* VulnRecord with the placeholder "-" as the default of every field.
VulnRecordDash(target, v) ==
  [target    |-> target,
   pkg       |-> Get(v, "PkgName", "-"),
   installed |-> Get(v, "InstalledVersion", "-"),
   fixed     |-> Get(v, "FixedVersion", "-"),
   severity  |-> Get(v, "Severity", "-"),
   cve       |-> Get(v, "VulnerabilityID", "-"),
   title     |-> Slice(Get(v, "Title", Dash), TitleMax)]

VulnRecord(target, v) ==
  [target    |-> target,
   pkg       |-> Get(v, "PkgName", "-"),
   installed |-> Get(v, "InstalledVersion", "-"),
   fixed     |-> Get(v, "FixedVersion", "-"),
   severity  |-> Get(v, "Severity", "UNKNOWN"),
   cve       |-> Get(v, "VulnerabilityID", "-"),
   title     |-> Slice(Get(v, "Title", Dash), TitleMax)]

MisconfigRecord(target, m) ==
  [target   |-> target,
   id       |-> Get(m, "ID", "-"),
   severity |-> Get(m, "Severity", "UNKNOWN"),
   title    |-> Slice(Get(m, "Title", Dash), TitleMax),
   status   |-> Get(m, "Status", "-")]

ResultVulns(result) ==
  LET target == Get(result, "Target", "unknown")
      vs == OrEmpty(Get(result, "Vulnerabilities", JNull))
  IN [k \in 1..Len(vs) |-> VulnRecord(target, vs[k])]

ResultMisconfigs(result) ==
  LET target == Get(result, "Target", "unknown")
      ms == OrEmpty(Get(result, "Misconfigurations", JNull))
  IN [k \in 1..Len(ms) |-> MisconfigRecord(target, ms[k])]

RECURSIVE ExtractFrom(_, _)
ExtractFrom(results, i) ==
  IF i > Len(results) THEN <<>>
  ELSE ResultVulns(results[i]) \o ExtractFrom(results, i + 1)

RECURSIVE ExtractMisFrom(_, _)
ExtractMisFrom(results, i) ==
  IF i > Len(results) THEN <<>>
  ELSE ResultMisconfigs(results[i]) \o ExtractMisFrom(results, i + 1)

\* data["Results"] in place of data.get("Results", []).
ResultsRequired(data) ==
  "Results" \in DOMAIN data /\ data.Results.t = "list"

\* data.get("Results", []) is iterated; a null there raises TypeError.
ResultsIterable(data) == Get(data, "Results", JList(<<>>)).t = "list"

extract_vulnerabilities(data) ==
  ExtractFrom(Get(data, "Results", JList(<<>>)).v, 1)

extract_misconfigs(data) ==
  ExtractMisFrom(Get(data, "Results", JList(<<>>)).v, 1)

\* ------------------------------------------------------------------------
\* The reports a run may be given.  Every field of the input format is
\* optional, so an entry is built from the keys it has.
EmptyObj == [k \in {} |-> k]

\* The objects that either lack `key` or have it with a value of `vals`.
Opt(key, vals) == {EmptyObj} \cup {key :> x : x \in vals}

Unrecognized == "NEGLIGIBLE"
Severities == Range(SEVERITY_ORDER)

Titles == {Repeat("x", 1), Repeat("x", TitleMax), Repeat("x", TitleMax + 1)}

Identity ==
  ("PkgName" :> "openssl") @@ ("InstalledVersion" :> "1.1.0")
    @@ ("VulnerabilityID" :> "CVE-1")

\* Entries with every combination of the keys the claims speak about.
RawVulns ==
  {s @@ f @@ t @@ p :
     s \in Opt("Severity", Severities \cup {Unrecognized}),
     f \in Opt("FixedVersion", {"1.1.1"}),
     t \in Opt("Title", Titles),
     p \in {EmptyObj, Identity}}

FullVuln(sev) ==
  ("Severity" :> sev) @@ ("FixedVersion" :> "1.1.1")
    @@ ("Title" :> Repeat("x", 1)) @@ Identity

RawMisconfig(sev) ==
  ("ID" :> "DS002") @@ ("Severity" :> sev) @@ ("Title" :> Repeat("y", 1))
    @@ ("Status" :> "FAIL")

\* One Result holding the given vulnerability entries.
OneResult(vs) ==
  JList(<<("Target" :> "image") @@ ("Vulnerabilities" :> JList(vs))>>)

Report(results) == "Results" :> results

\* All sequences over S of length at most n.
SeqsUpTo(S, n) == UNION {[1..k -> S] : k \in 0..n}

\* s1, s2, s1, s2, ... of length n
Alternate(s1, s2, n) ==
  [k \in 1..n |-> FullVuln(IF k % 2 = 1 THEN s1 ELSE s2)]

\* (a) one entry, every combination of present and absent keys
FieldReports == {Report(OneResult(<<e>>)) : e \in RawVulns}

\* (b) every short sequence of severities, recognized or not
SeverityReports ==
  {Report(OneResult([k \in DOMAIN ss |-> FullVuln(ss[k])])) :
     ss \in SeqsUpTo(Severities \cup {Unrecognized}, MaxVulns)}

\* (c) several Results of different shapes, in every order
SimpleResults ==
  { EmptyObj,
    ("Target" :> "a") @@ ("Vulnerabilities" :> JNull)
      @@ ("Misconfigurations" :> JList(<<RawMisconfig("HIGH")>>)),
    ("Target" :> "b") @@ ("Vulnerabilities" :> JList(<<>>)),
    ("Target" :> "c") @@ ("Vulnerabilities" :> JList(<<FullVuln("HIGH")>>))
      @@ ("Misconfigurations" :> JNull),
    ("Target" :> "d")
      @@ ("Vulnerabilities" :> JList(<<FullVuln("LOW"), FullVuln("CRITICAL")>>))
      @@ ("Misconfigurations" :>
            JList(<<EmptyObj, RawMisconfig(Unrecognized)>>)),
    ("Misconfigurations" :>
       JList([k \in 1..(MisconfigMax + 1) |-> RawMisconfig("LOW")])) }

StructureReports ==
  {EmptyObj, Report(JNull)}
    \cup {Report(JList(rs)) : rs \in SeqsUpTo(SimpleResults, MaxResults)}

\* (d) long lists, around the table limit and the bar cap
LongLens ==
  {TableMax - 1, TableMax, TableMax + 1, BarCap, BarCap + 1, 2 * BarCap + 1}

LongReports ==
  {Report(OneResult(Alternate(s1, s2, n))) :
     s1 \in Severities, s2 \in Severities, n \in LongLens}

Reports == FieldReports \cup SeverityReports \cup StructureReports \cup LongReports

\* What open() and json.load() find at args.input.
InputFiles ==
  {[kind |-> "missing"], [kind |-> "undecodable"], [kind |-> "malformed"]}
    \cup {[kind |-> "json", data |-> d] : d \in Reports}

\* ------------------------------------------------------------------------
VARIABLES
  args,          \* the parsed command line: input, fail_on, output
  isatty,        \* whether standard output is an interactive terminal
  input_file,    \* the file at args.input
  output_file,   \* the file at args.output
  pc,            \* position of main()
  vulns,         \* main's vulns
  misconfigs,    \* main's misconfigs
  sorted_vulns,  \* print_summary's sorted_vulns, as references into vulns
  stdout,        \* the lines printed so far
  threshold_idx, \* main's threshold_idx
  gate_i,        \* position of the gate loop in vulns
  uncaught,      \* the exception that ended the run, if any
  exit_code      \* the process's exit status, once it has one

vars ==
  <<args, isatty, input_file, output_file, pc, vulns, misconfigs,
    sorted_vulns, stdout, threshold_idx, gate_i, uncaught, exit_code>>

Running == -1

Init ==
  /\ args \in [input : {"trivy.json"},
               fail_on : FailOnChoices \cup {None},
               output : {None, "summary.txt"}]
  /\ isatty \in BOOLEAN
  /\ input_file \in InputFiles
  /\ output_file = [exists |-> FALSE, lines |-> <<>>]
  /\ pc = "load"
  /\ vulns = <<>>
  /\ misconfigs = <<>>
  /\ sorted_vulns = <<>>
  /\ stdout = <<>>
  /\ threshold_idx = NotInList
  /\ gate_i = 0
  /\ uncaught = None
  /\ exit_code = Running

\* print(line)
Emit(out, line) == Append(out, line)

\* An exception nobody catches: traceback on stderr, exit status 1.
Crash(exc) ==
  /\ pc' = "crashed"
  /\ uncaught' = exc
  /\ exit_code' = 1

\* sys.exit(code)
Exit(code) ==
  /\ pc' = "exited"
  /\ exit_code' = code
  /\ UNCHANGED uncaught

\* parse_trivy_json: the document, or the exception open() or json.load()
\* raises.  A file that is not UTF-8 fails in the decoder, before any JSON
\* is parsed, with UnicodeDecodeError.
parse_trivy_json(file) ==
  CASE file.kind = "missing" -> [raises |-> "FileNotFoundError"]
    [] file.kind = "undecodable" -> [raises |-> "UnicodeDecodeError"]
    [] file.kind = "malformed" -> [raises |-> "JSONDecodeError"]
    [] OTHER -> [raises |-> None, data |-> file.data]

\* main, the try block: parse_trivy_json and the two extractors, with the
\* two except clauses.  UnicodeDecodeError and the TypeError of iterating a
\* null "Results" are neither FileNotFoundError nor JSONDecodeError.
LoadReport ==
  /\ pc = "load"
  /\ LET parsed == parse_trivy_json(input_file)
     IN CASE parsed.raises = "FileNotFoundError" ->
               /\ stdout' = Emit(stdout, [kind |-> "ERROR", text |-> "File not found"])
               /\ Exit(1)
               /\ UNCHANGED <<vulns, misconfigs>>
          [] parsed.raises = "JSONDecodeError" ->
               /\ stdout' = Emit(stdout, [kind |-> "ERROR", text |-> "Invalid JSON"])
               /\ Exit(1)
               /\ UNCHANGED <<vulns, misconfigs>>
          [] parsed.raises \notin {None, "FileNotFoundError", "JSONDecodeError"} ->
               /\ Crash(parsed.raises)
               /\ UNCHANGED <<stdout, vulns, misconfigs>>
          [] parsed.raises = None /\ ~ResultsIterable(parsed.data) ->
               /\ Crash("TypeError")
               /\ UNCHANGED <<stdout, vulns, misconfigs>>
          [] OTHER ->
               /\ vulns' = extract_vulnerabilities(parsed.data)
               /\ misconfigs' = extract_misconfigs(parsed.data)
               /\ pc' = "summary"
               /\ UNCHANGED <<stdout, uncaught, exit_code>>
  /\ UNCHANGED <<args, isatty, input_file, output_file, sorted_vulns,
                 threshold_idx, gate_i>>

\* ------------------------------------------------------------------------
\* print_summary.

\* counts = defaultdict(int); for v in vulns: counts[v["severity"]] += 1
\* The dict holds a key for every severity met and, under it, the number of
\* times the loop met it.
Tally(vs) ==
  [sev \in {vs[k].severity : k \in DOMAIN vs} |->
     Cardinality({k \in DOMAIN vs : vs[k].severity = sev})]

\* f"{x:<w}"
Pad(x, w) == [text |-> x, width |-> w]

\* TallyLine with a bar as long as the count.
TallyLineUncapped(counts, sev) ==
  LET count == Get(counts, sev, 0)
      bar == Repeat("#", count)
  IN [kind |-> "tally", label |-> color(Pad(sev, 10), sev),
      bar |-> color(bar, sev), count |-> count]

TallyLine(counts, sev) ==
  LET count == Get(counts, sev, 0)
      bar == Repeat("#", Min(count, BarCap))
  IN [kind |-> "tally", label |-> color(Pad(sev, 10), sev),
      bar |-> color(bar, sev), count |-> count]

\* The line "Generated: ..." carries the local time of the call, which no
\* other line and no decision depends on; its text is left out.
HeaderLines(vs, ms) ==
  LET counts == Tally(vs)
  IN <<[kind |-> "rule"], [kind |-> "title"], [kind |-> "generated"],
       [kind |-> "rule"], [kind |-> "tally_title"]>>
     \o [k \in 1..Len(SEVERITY_ORDER) |-> TallyLine(counts, SEVERITY_ORDER[k])]
     \o <<[kind |-> "total_vulns", n |-> Len(vs)],
          [kind |-> "total_misconfigs", n |-> Len(ms)]>>

TableHead ==
  <<[kind |-> "thin_rule"], [kind |-> "table_title"], [kind |-> "thin_rule"],
    [kind |-> "table_head"], [kind |-> "table_rule"]>>

\* The order of a sort that puts the later of two equal keys first.
AheadUnstable(vs, j, i) ==
  \/ Index(vs[j].severity) < Index(vs[i].severity)
  \/ Index(vs[j].severity) = Index(vs[i].severity) /\ j > i

\* sorted(vulns, key=...): a stable sort.  The result holds the same dict
\* objects as vulns, here their positions in vulns.  A stable sort puts j
\* ahead of i when j's key is smaller, or equal with j earlier in the input.
Ahead(vs, j, i) ==
  \/ Index(vs[j].severity) < Index(vs[i].severity)
  \/ Index(vs[j].severity) = Index(vs[i].severity) /\ j < i

Sorted(vs) ==
  LET ahead(j, i) == Ahead(vs, j, i)
  IN SortSeq([i \in DOMAIN vs |-> i], ahead)

\* The key function raises ValueError on a severity SEVERITY_ORDER lacks.
KeysDefined(vs) == \A k \in DOMAIN vs : Index(vs[k].severity) # NotInList

TableRow(v) ==
  [kind |-> "row", sev |-> color(Pad(v.severity, 10), v.severity),
   cve |-> Pad(v.cve, 20), pkg |-> Pad(v.pkg, 20), fixed |-> Pad(v.fixed, 15),
   title |-> v.title]

TableRows(vs, sorted) ==
  LET shown == Slice(sorted, TableMax)
  IN [k \in 1..Len(shown) |-> TableRow(vs[shown[k]])]

MisconfigLines(ms) ==
  LET shown == Slice(ms, MisconfigMax)
  IN <<[kind |-> "thin_rule"], [kind |-> "misconfig_title"], [kind |-> "thin_rule"]>>
     \o [k \in 1..Len(shown) |->
           [kind |-> "misconfig",
            sev |-> color(Pad(shown[k].severity, 10), shown[k].severity),
            id |-> Pad(shown[k].id, 15), title |-> shown[k].title]]

Footer == <<[kind |-> "footer"]>>

\* main, line 138: the whole of print_summary.  The sort raises ValueError
\* after the tally and the table's head have been printed.
print_summary ==
  /\ pc = "summary"
  /\ IF vulns # <<>> /\ ~KeysDefined(vulns)
     THEN /\ stdout' = stdout \o HeaderLines(vulns, misconfigs) \o TableHead
          /\ Crash("ValueError")
          /\ UNCHANGED sorted_vulns
     ELSE /\ sorted_vulns' = Sorted(vulns)
          /\ stdout' = stdout \o HeaderLines(vulns, misconfigs)
               \o (IF vulns # <<>>
                   THEN TableHead \o TableRows(vulns, sorted_vulns') ELSE <<>>)
               \o (IF misconfigs # <<>> THEN MisconfigLines(misconfigs) ELSE <<>>)
               \o Footer
          /\ pc' = "gate"
          /\ UNCHANGED <<uncaught, exit_code>>
  /\ UNCHANGED <<args, isatty, input_file, output_file, vulns, misconfigs,
                 threshold_idx, gate_i>>

\* ------------------------------------------------------------------------
\* The gate.

\* main, lines 141-142: if args.fail_on: threshold_idx = ...
GateEnter ==
  /\ pc = "gate"
  /\ IF args.fail_on # None
     THEN /\ threshold_idx' = Index(args.fail_on)
          /\ gate_i' = 1
          /\ pc' = "gate_loop"
     ELSE /\ pc' = "pass"
          /\ UNCHANGED <<threshold_idx, gate_i>>
  /\ UNCHANGED <<args, isatty, input_file, output_file, vulns, misconfigs,
                 sorted_vulns, stdout, uncaught, exit_code>>

\* The test of line 144 with < for <=.
BreachesStrict(v, idx) == Index(v.severity) < idx

\* The test of line 144.
Breaches(v, idx) == Index(v.severity) <= idx

\* The loop of lines 143-146 without its sys.exit(1).
GateStepNoExit ==
  /\ pc = "gate_loop"
  /\ IF gate_i > Len(vulns)
     THEN /\ pc' = "pass"
          /\ UNCHANGED <<stdout, gate_i, uncaught, exit_code>>
     ELSE IF Breaches(vulns[gate_i], threshold_idx)
     THEN /\ stdout' = Emit(stdout, [kind |-> "FAIL", text |-> args.fail_on])
          /\ gate_i' = gate_i + 1
          /\ UNCHANGED <<pc, uncaught, exit_code>>
     ELSE /\ gate_i' = gate_i + 1
          /\ UNCHANGED <<stdout, pc, uncaught, exit_code>>
  /\ UNCHANGED <<args, isatty, input_file, output_file, vulns, misconfigs,
                 sorted_vulns, threshold_idx>>

\* main, lines 143-146: one turn of `for v in vulns`.
GateStep ==
  /\ pc = "gate_loop"
  /\ IF gate_i > Len(vulns)
     THEN /\ pc' = "pass"
          /\ UNCHANGED <<stdout, gate_i, uncaught, exit_code>>
     ELSE IF Index(vulns[gate_i].severity) = NotInList
     THEN /\ Crash("ValueError")
          /\ UNCHANGED <<stdout, gate_i>>
     ELSE IF Breaches(vulns[gate_i], threshold_idx)
     THEN /\ stdout' = Emit(stdout, [kind |-> "FAIL", text |-> args.fail_on])
          /\ Exit(1)
          /\ UNCHANGED gate_i
     ELSE /\ gate_i' = gate_i + 1
          /\ UNCHANGED <<stdout, pc, uncaught, exit_code>>
  /\ UNCHANGED <<args, isatty, input_file, output_file, vulns, misconfigs,
                 sorted_vulns, threshold_idx>>

\* main, line 148, and the return from main: exit status 0.
Pass ==
  /\ pc = "pass"
  /\ stdout' = Emit(stdout, [kind |-> "PASS"])
  /\ pc' = "done"
  /\ exit_code' = 0
  /\ UNCHANGED <<args, isatty, input_file, output_file, vulns, misconfigs,
                 sorted_vulns, threshold_idx, gate_i, uncaught>>

Next == LoadReport \/ print_summary \/ GateEnter \/ GateStep \/ Pass

Spec == Init /\ [][Next]_vars

\* ------------------------------------------------------------------------
\* Vocabulary of the properties.

\* The fixed order as ranks, written out (0 is the most severe).
SeverityRank ==
  [CRITICAL |-> 0, HIGH |-> 1, MEDIUM |-> 2, LOW |-> 3, UNKNOWN |-> 4]

\* The printed lines whose kind is one of kinds, in the order printed.
LinesOf(kinds) ==
  LET keep(line) == line.kind \in kinds
  IN SelectSeq(stdout, keep)

LineKinds == {stdout[k].kind : k \in DOMAIN stdout}

StatusKinds == {"ERROR", "FAIL", "PASS"}

LastKind == IF stdout = <<>> THEN None ELSE stdout[Len(stdout)].kind

\* The report was read and flattened without an exception.
Loaded ==
  /\ pc # "load"
  /\ input_file.kind = "json"
  /\ uncaught \notin {"UnicodeDecodeError", "TypeError"}

Recognized == \A k \in DOMAIN vulns : vulns[k].severity \in Severities

\* Every severity is one of the fixed order and the run is past the call of
\* print_summary.
Summarized == Loaded /\ Recognized /\ pc # "summary"

\* The run ended by returning from main or by sys.exit.
Ended == pc \in {"done", "exited"}

\* The raw vulnerability entries of a report, in file order.
RECURSIVE RawEntries(_, _)
RawEntries(results, n) ==
  IF n = 0 THEN <<>>
  ELSE RawEntries(results, n - 1)
         \o (IF "Vulnerabilities" \in DOMAIN results[n]
                  /\ results[n].Vulnerabilities.t = "list"
             THEN results[n].Vulnerabilities.v ELSE <<>>)

Raw ==
  IF input_file.kind = "json" /\ "Results" \in DOMAIN input_file.data
       /\ input_file.data.Results.t = "list"
  THEN RawEntries(input_file.data.Results.v, Len(input_file.data.Results.v))
  ELSE <<>>

\* ------------------------------------------------------------------------
\* C1: a loaded report whose vulnerabilities all have a severity of the
\* fixed order never ends in an uncaught exception, and its run ends with
\* exit code 1 and [FAIL] as the last line exactly when a threshold was given
\* and some vulnerability ranks at or above it; otherwise with exit code 0
\* and [PASS].  Only vulns and the threshold enter the decision.
C1_GateRule ==
  (Loaded /\ Recognized) =>
    /\ pc # "crashed"
    /\ Ended =>
         LET breach ==
               /\ args.fail_on # None
               /\ \E k \in DOMAIN vulns :
                    SeverityRank[vulns[k].severity] <= SeverityRank[args.fail_on]
         IN IF breach
            THEN exit_code = 1 /\ LastKind = "FAIL" /\ LinesOf({"PASS"}) = <<>>
            ELSE exit_code = 0 /\ LastKind = "PASS" /\ LinesOf({"FAIL"}) = <<>>

C1_Witness ==
  /\ Ended /\ Loaded /\ Recognized
  /\ args.fail_on = "MEDIUM"
  /\ Len(vulns) >= 2
  /\ vulns[1].severity = "LOW"
  /\ \E k \in DOMAIN vulns : vulns[k].severity = "MEDIUM"
  /\ \A k \in DOMAIN vulns : vulns[k].severity \in {"MEDIUM", "LOW", "UNKNOWN"}
  /\ LastKind = "FAIL"
  /\ exit_code = 1

\* C2: when the input file is missing or its content is not valid JSON (text
\* that does not parse, or bytes that are not text at all), the run prints
\* exactly one line, an [ERROR] line ("File not found" for a missing file),
\* and exits with code 1; nothing of the summary and no [PASS]/[FAIL].
C2_LoaderErrors ==
  (pc # "load" /\ input_file.kind \in {"missing", "malformed", "undecodable"}) =>
    /\ exit_code = 1
    /\ Len(stdout) = 1
    /\ stdout[1].kind = "ERROR"
    /\ input_file.kind = "missing" => stdout[1].text = "File not found"

\* C3: when --output names a path and the report loads, the rendered summary
\* is in the file at that path by the end of the run.
C3_OutputWritten ==
  (Ended /\ Loaded /\ args.output # None) =>
    /\ output_file.exists
    /\ output_file.lines = LinesOf(LineKinds \ StatusKinds)

\* C4: a vulnerability whose severity is outside the fixed order is no error:
\* the run renders the whole summary and ends with [PASS] or [FAIL].
C4_UnrecognizedIsNormal ==
  (Loaded /\ ~Recognized) =>
    /\ pc # "crashed"
    /\ Ended => (LinesOf({"footer"}) # <<>> /\ LastKind \in {"PASS", "FAIL"})

\* C5: a report with zero Results (an empty "Results", or no "Results" key)
\* yields empty vulns and misconfigs, never fails or crashes, and ends with
\* exit code 0 and [PASS], whatever the threshold.
ZeroResults ==
  /\ input_file.kind = "json"
  /\ \/ "Results" \notin DOMAIN input_file.data
     \/ /\ input_file.data.Results.t = "list"
        /\ input_file.data.Results.v = <<>>

C5_ZeroResults ==
  (ZeroResults /\ pc # "load") =>
    /\ vulns = <<>>
    /\ misconfigs = <<>>
    /\ pc \notin {"crashed", "exited"}
    /\ LinesOf({"FAIL", "ERROR"}) = <<>>
    /\ pc = "done" => (exit_code = 0 /\ LastKind = "PASS")

C5_Witness ==
  /\ ZeroResults
  /\ "Results" \notin DOMAIN input_file.data
  /\ args.fail_on = "LOW"
  /\ pc = "done"
  /\ exit_code = 0

\* C6: the five tally lines come in the fixed order; each shows the true
\* number of vulnerabilities of its severity and a bar of min(count, 40).
TrueCount(sev) == Cardinality({k \in DOMAIN vulns : vulns[k].severity = sev})

TallyPrinted == Loaded /\ pc # "summary"

C6_Tally ==
  TallyPrinted =>
    LET tally == LinesOf({"tally"})
    IN /\ Len(tally) = 5
       /\ \A k \in 1..5 :
            /\ tally[k].label[2].text = SEVERITY_ORDER[k]
            /\ tally[k].count = TrueCount(SEVERITY_ORDER[k])
            /\ Len(tally[k].bar[2]) =
                 (IF tally[k].count <= 40 THEN tally[k].count ELSE 40)

C6_Witness ==
  /\ TallyPrinted
  /\ LET tally == LinesOf({"tally"})
     IN /\ tally[2].count = 41 /\ Len(tally[2].bar[2]) = 40
        /\ tally[4].count = 40 /\ Len(tally[4].bar[2]) = 40
        /\ tally[1].count = 0 /\ Len(tally[1].bar[2]) = 0

\* C7: for vulnerabilities with severities of the fixed order, once
\* print_summary has run the table's rows are the first min(20, n) of the
\* sequence sorted by rank, CRITICAL first; equal severities keep the order
\* of the extracted sequence; nothing left out is more severe than a row.
\* (Each element stands before its successor in the order "smaller rank, or
\* equal rank and earlier in vulns"; that order is transitive, so every
\* element stands so before every later one.)
RowShows(row, v) ==
  /\ row.sev[2].text = v.severity
  /\ row.cve.text = v.cve
  /\ row.pkg.text = v.pkg
  /\ row.fixed.text = v.fixed
  /\ row.title = v.title

C7_TopTable ==
  (Summarized /\ vulns # <<>>) =>
    LET rows == LinesOf({"row"})
        n == Len(vulns)
        rank(i) == SeverityRank[vulns[sorted_vulns[i]].severity]
    IN /\ Len(rows) = (IF n <= 20 THEN n ELSE 20)
       /\ Len(sorted_vulns) = n
       /\ Range(sorted_vulns) = 1..n
       /\ \A i \in 1..(n - 1) :
            \/ rank(i) < rank(i + 1)
            \/ rank(i) = rank(i + 1) /\ sorted_vulns[i] < sorted_vulns[i + 1]
       /\ \A k \in 1..Len(rows) : RowShows(rows[k], vulns[sorted_vulns[k]])
       /\ \A k \in 1..Len(rows) : \A m \in (Len(rows) + 1)..n : rank(k) <= rank(m)

C7_Witness ==
  /\ Summarized
  /\ Len(vulns) = 21
  /\ vulns[1].severity = "LOW"
  /\ vulns[2].severity = "CRITICAL"
  /\ LET rows == LinesOf({"row"})
     IN /\ Len(rows) = 20
        /\ rows[1].sev[2].text = "CRITICAL"
        /\ rows[20].sev[2].text = "LOW"
        /\ sorted_vulns[1] = 2
        /\ sorted_vulns[21] = 21

\* C8: an entry without "FixedVersion" gives a record, and (the severities
\* being of the fixed order) a table row, whose fixed version is "-"; an entry without "Severity" gives a record of
\* severity UNKNOWN, counted in the UNKNOWN bucket, sorted behind every more
\* severe vulnerability (only UNKNOWN ones follow an UNKNOWN one) and never
\* breaching the gate; a field the entry has keeps the entry's value.
Omits(raw, p, key) == key \notin DOMAIN raw[p]

\* The entry counts as UNKNOWN: it has no "Severity", or that very value.
RawUnknown(raw, p) == Omits(raw, p, "Severity") \/ raw[p].Severity = "UNKNOWN"

C8_FieldDefaults ==
  Loaded =>
    LET raw == Raw
        rows == LinesOf({"row"})
    IN /\ Len(vulns) = Len(raw)
       /\ \A p \in DOMAIN vulns :
            /\ vulns[p].fixed =
                 (IF Omits(raw, p, "FixedVersion") THEN "-" ELSE raw[p].FixedVersion)
            /\ vulns[p].severity =
                 (IF Omits(raw, p, "Severity") THEN "UNKNOWN" ELSE raw[p].Severity)
       /\ TallyPrinted =>
            LinesOf({"tally"})[5].count =
              Cardinality({p \in DOMAIN raw : RawUnknown(raw, p)})
       /\ Summarized =>
            /\ \A k \in DOMAIN rows :
                 /\ Omits(raw, sorted_vulns[k], "FixedVersion") =>
                      rows[k].fixed.text = "-"
                 /\ Omits(raw, sorted_vulns[k], "Severity") =>
                      rows[k].sev[2].text = "UNKNOWN"
            /\ \A i \in 1..(Len(sorted_vulns) - 1) :
                 RawUnknown(raw, sorted_vulns[i]) =>
                   RawUnknown(raw, sorted_vulns[i + 1])
       /\ (\A p \in DOMAIN raw : Omits(raw, p, "Severity")) =>
            LinesOf({"FAIL"}) = <<>>

C8_Witness ==
  /\ pc = "done"
  /\ Loaded
  /\ args.fail_on = "LOW"
  /\ Len(Raw) = 1
  /\ Omits(Raw, 1, "FixedVersion")
  /\ Omits(Raw, 1, "Severity")
  /\ LinesOf({"row"})[1].fixed.text = "-"
  /\ LinesOf({"tally"})[5].count = 1

\* C9: when standard output is not an interactive terminal, no printed line
\* carries a color escape sequence.
Colored(line) ==
  \E f \in DOMAIN line \cap {"label", "bar", "sev"} :
    line[f][1] # "" \/ line[f][3] # ""

C9_NoColorOffTerminal ==
  ~isatty => \A k \in DOMAIN stdout : ~Colored(stdout[k])

\* C10: at most one of [ERROR], [FAIL], [PASS] is ever printed and nothing is
\* printed after it; a run that ends by sys.exit or by returning from main
\* has printed exactly one; the exit code is 0 exactly when it is [PASS]; and
\* [FAIL] or [PASS] comes after the complete summary.
C10_OutputOrder ==
  LET status == {k \in DOMAIN stdout : stdout[k].kind \in StatusKinds}
  IN /\ Cardinality(status) <= 1
     /\ status \subseteq {Len(stdout)}
     /\ Ended => /\ Cardinality(status) = 1
                 /\ exit_code = 0 <=> LastKind = "PASS"
     /\ \A k \in status :
          stdout[k].kind \in {"FAIL", "PASS"} =>
            /\ stdout[1].kind = "rule"
            /\ stdout[k - 1].kind = "footer"
            /\ Len(LinesOf({"tally"})) = 5

C10_Witness ==
  /\ pc = "exited"
  /\ LastKind = "FAIL"
  /\ Len(LinesOf({"FAIL"})) = 1
  /\ Len(vulns) >= 3
  /\ Breaches(vulns[1], threshold_idx)
  /\ Breaches(vulns[2], threshold_idx)
  /\ stdout[Len(stdout) - 1].kind = "footer"

====
